---- MODULE Spec2Model ----
(***************************************************************************)
(* SudokuCSP.py: the AC-3 / backtracking solver (class SudokuCSP) and the  *)
(* brute-force reference solver (class BruteForceSudoku), run one after    *)
(* the other on copies of the same grid as app.py's index() does.          *)
(*                                                                         *)
(* A cell is the pair <<row, col>>, a grid a function from cells to 0..9.  *)
(* The recursion of solve()/backtrack() is an explicit stack of frames,    *)
(* one per active backtrack() call.  A step is: the iterations of ac3's     *)
(* loop up to the next one that removes a value, one iteration of a        *)
(* "for num" loop, or one return.                                          *)
(*                                                                         *)
(* Python leaves the iteration order of a set open.  The order of a set of *)
(* cells only decides the order of the AC-3 work queue and of the list     *)
(* "changes"; the model iterates it in row-major order (iter_cells).  The  *)
(* order of a set of digits decides how sorted() in lcv breaks ties, so    *)
(* the model keeps, next to each domain, the hash table CPython holds it   *)
(* in (tables) and iterates the domain in the order of that table: a set   *)
(* of digits iterates in ascending order unless it is a copy of at most 4  *)
(* digits, whose table has 8 slots, where 8 hashes to slot 0 and 9 to      *)
(* slot 1.                                                                 *)
(***************************************************************************)
EXTENDS Integers, Sequences, FiniteSets, TLC

\* self.size
size == 9

\* number of puzzles of the list Puzzles a run may start from
NumPuzzles == 10

\* the most empty cells of a grid whose completions are enumerated
MaxBlanks == 25

Cell == (0 .. size - 1) \X (0 .. size - 1)

Digits == 1 .. 9

\* a function result of None
None == << >>

knight_moves ==
  << <<2, 1>>, <<2, -1>>, <<-2, 1>>, <<-2, -1>>,
     <<1, 2>>, <<1, -2>>, <<-1, 2>>, <<-1, -2>> >>

\* for row in range(self.size): for col in range(self.size)
RowMajor == [i \in 1 .. size * size |-> <<(i - 1) \div size, (i - 1) % size>>]

Range(s) == {s[i] : i \in DOMAIN s}

\* set iteration: cells in row-major order, digits in ascending order
iter_cells(S) == SelectSeq(RowMajor, LAMBDA c : c \in S)

iter_digits(S) == SelectSeq([i \in 1 .. 9 |-> i], LAMBDA v : v \in S)

(***************************************************************************)
(* CPython's set of small integers.  A table is the sequence of its slots: *)
(* a digit, 0 for a slot never used, -1 for the slot of a removed digit.   *)
(* Only tables of 8 slots are spelled out; in a larger one (16 or 32       *)
(* slots) every digit sits in the slot of its own value.                   *)
(***************************************************************************)
\* a table of more than 8 slots
Big == << >>

EmptyTable == [k \in 1 .. 8 |-> 0]

\* the slot a new key lands in, probing from slot i (hash(v) = v)
RECURSIVE set_probe(_, _)
set_probe(t, i) == IF t[i + 1] = 0 THEN i ELSE set_probe(t, (5 * i + 1) % 8)

set_insert_clean(t, v) == [t EXCEPT ![set_probe(t, v % 8) + 1] = v]

\* the keys of seq inserted one after the other
RECURSIVE set_insert_all(_, _)
set_insert_all(t, seq) ==
  IF seq = << >> THEN t
  ELSE set_insert_all(set_insert_clean(t, Head(seq)), Tail(seq))

\* the set display {v}
set_literal(v) == set_insert_clean(EmptyTable, v)

\* iteration over the set S held in table t
set_iter(t, S) ==
  IF t = Big THEN iter_digits(S) ELSE SelectSeq(t, LAMBDA v : v > 0)

\* S.copy(): 5 keys and more get a larger table; a table of 8 slots without
\* removed keys is copied slot by slot; otherwise the keys are inserted in
\* iteration order
set_copy(t, S) ==
  IF t = Big
  THEN IF Cardinality(S) >= 5 THEN Big
       ELSE set_insert_all(EmptyTable, iter_digits(S))
  ELSE IF \A k \in DOMAIN t : t[k] # -1 THEN t
       ELSE set_insert_all(EmptyTable, set_iter(t, S))

\* S.remove(v) for every v of gone
set_remove(t, gone) ==
  IF t = Big THEN Big
  ELSE [k \in DOMAIN t |-> IF t[k] \in gone THEN -1 ELSE t[k]]

\* neighbors without the bounds test on the knight's jumps
neighbors_no_bounds(cell, kn) ==
  LET row == cell[1]
      col == cell[2]
      box_start_row == 3 * (row \div 3)
      box_start_col == 3 * (col \div 3)
      line == {<<row, i>> : i \in (0 .. size - 1) \ {col}}
                \cup {<<i, col>> : i \in (0 .. size - 1) \ {row}}
      box == {<<box_start_row + i, box_start_col + j>> : i \in 0 .. 2, j \in 0 .. 2}
                \ {cell}
      jumps == {<<row + knight_moves[k][1], col + knight_moves[k][2]>> :
                  k \in DOMAIN knight_moves}
  IN  line \cup box \cup (IF kn THEN jumps ELSE {})

\* SudokuCSP.neighbors, with self.knights as the parameter kn
neighbors(cell, kn) ==
  LET row == cell[1]
      col == cell[2]
      box_start_row == 3 * (row \div 3)
      box_start_col == 3 * (col \div 3)
      line == {<<row, i>> : i \in (0 .. size - 1) \ {col}}
                \cup {<<i, col>> : i \in (0 .. size - 1) \ {row}}
      box == {<<box_start_row + i, box_start_col + j>> : i \in 0 .. 2, j \in 0 .. 2}
                \ {cell}
      jumps == {<<row + knight_moves[k][1], col + knight_moves[k][2]>> :
                  k \in DOMAIN knight_moves}
      knight == IF kn
                THEN {c \in jumps : 0 <= c[1] /\ c[1] < size /\ 0 <= c[2] /\ c[2] < size}
                ELSE {}
  IN  line \cup box \cup knight

\* the neighbour sets, computed once: as a set and in iteration order
NeighborSet == [kn \in BOOLEAN |-> [cell \in Cell |-> neighbors(cell, kn)]]

NeighborList == [kn \in BOOLEAN |-> [cell \in Cell |-> iter_cells(NeighborSet[kn][cell])]]

(***************************************************************************)
(* The input grids.                                                        *)
(***************************************************************************)
GridOf(rows) == [c \in Cell |-> rows[c[1] + 1][c[2] + 1]]

\* the solution of the fixture sudoku_board
Solution ==
  << <<5,3,4,6,7,8,9,1,2>>,
     <<6,7,2,1,9,5,3,4,8>>,
     <<1,9,8,3,4,2,5,6,7>>,
     <<8,5,9,7,6,1,4,2,3>>,
     <<4,2,6,8,5,3,7,9,1>>,
     <<7,1,3,9,2,4,8,5,6>>,
     <<9,6,1,5,3,7,2,8,4>>,
     <<2,8,7,4,1,9,6,3,5>>,
     <<3,4,5,2,8,6,1,7,9>> >>

\* a grid that also satisfies the knight rule
KnightSolution ==
  << <<1,2,3,4,5,6,7,8,9>>,
     <<4,8,9,3,2,7,1,5,6>>,
     <<5,6,7,1,8,9,3,2,4>>,
     <<6,5,1,7,4,8,9,3,2>>,
     <<7,4,2,9,3,5,6,1,8>>,
     <<9,3,8,6,1,2,4,7,5>>,
     <<3,1,5,8,6,4,2,9,7>>,
     <<2,7,4,5,9,3,8,6,1>>,
     <<8,9,6,2,7,1,5,4,3>> >>

\* a classical grid with 8 at (1,3) and at (3,4)
PairSolution ==
  << <<4,5,6,1,2,3,7,8,9>>,
     <<7,9,3,8,4,5,6,1,2>>,
     <<1,2,8,6,7,9,3,4,5>>,
     <<9,6,4,5,8,1,2,3,7>>,
     <<3,1,5,7,6,2,4,9,8>>,
     <<2,8,7,9,3,4,5,6,1>>,
     <<5,3,9,2,1,6,8,7,4>>,
     <<8,4,1,3,5,7,9,2,6>>,
     <<6,7,2,4,9,8,1,5,3>> >>

\* Solution with a rectangle of four cells blank: two completions
Rect ==
  << <<5,3,4,6,7,8,9,1,2>>,
     <<6,7,2,1,9,5,3,4,8>>,
     <<1,9,8,3,0,0,5,6,7>>,
     <<8,5,9,7,6,1,4,2,3>>,
     <<4,2,6,8,5,3,7,9,1>>,
     <<7,1,3,9,0,0,8,5,6>>,
     <<9,6,1,5,3,7,2,8,4>>,
     <<2,8,7,4,1,9,6,3,5>>,
     <<3,4,5,2,8,6,1,7,9>> >>

\* Solution with 19 cells blank: the search has to backtrack
Hard ==
  << <<0,3,0,6,7,8,0,1,2>>,
     <<6,7,2,1,9,5,3,4,8>>,
     <<1,0,8,3,4,2,0,6,7>>,
     <<8,0,9,7,0,0,4,2,3>>,
     <<4,2,0,8,0,3,7,9,1>>,
     <<7,1,3,9,2,4,8,5,6>>,
     <<0,0,1,5,0,7,2,8,4>>,
     <<2,8,7,4,0,9,0,3,5>>,
     <<0,4,0,2,8,0,0,7,9>> >>

\* KnightSolution with 25 cells blank
KnightHard ==
  << <<1,0,3,4,0,0,0,8,9>>,
     <<0,8,9,3,0,0,1,0,6>>,
     <<0,0,0,1,8,9,3,0,4>>,
     <<6,5,1,7,4,0,9,3,0>>,
     <<0,0,0,9,3,5,6,0,0>>,
     <<9,3,8,6,0,0,4,7,5>>,
     <<3,1,5,8,6,4,0,9,0>>,
     <<2,7,4,5,9,3,8,6,1>>,
     <<8,9,6,2,0,0,5,4,3>> >>

\* no completion: the three blanks of row 0 can only hold 3 or 5
Pigeonhole ==
  << <<0,0,0,6,7,8,9,1,2>>,
     <<4,7,2,1,9,5,3,0,8>>,
     <<1,9,8,3,0,0,0,0,7>>,
     <<8,0,9,7,6,0,0,2,3>>,
     <<0,2,0,8,5,3,7,9,1>>,
     <<7,0,0,9,0,0,8,0,6>>,
     <<9,6,1,5,3,7,2,8,4>>,
     <<2,8,7,4,1,9,6,3,5>>,
     <<0,4,0,2,8,6,1,7,9>> >>

\* no completion: cell (0,0) has no candidate left
NoCandidate ==
  << <<0,3,4,6,7,8,9,1,2>>,
     <<5,7,2,1,9,0,3,4,8>>,
     <<1,9,8,3,4,2,5,6,7>>,
     <<8,5,9,7,6,1,4,2,3>>,
     <<4,2,6,8,5,3,7,9,1>>,
     <<7,1,3,9,2,4,8,5,6>>,
     <<9,6,1,5,3,7,2,8,4>>,
     <<2,8,7,4,1,9,6,3,5>>,
     <<3,4,5,2,8,6,1,7,9>> >>

\* two 7s in row 0, no blank cell
TwoSevensFull ==
  << <<7,3,4,6,7,8,9,1,2>>,
     <<6,7,2,1,9,5,3,4,8>>,
     <<1,9,8,3,4,2,5,6,7>>,
     <<8,5,9,7,6,1,4,2,3>>,
     <<4,2,6,8,5,3,7,9,1>>,
     <<7,1,3,9,2,4,8,5,6>>,
     <<9,6,1,5,3,7,2,8,4>>,
     <<2,8,7,4,1,9,6,3,5>>,
     <<3,4,5,2,8,6,1,7,9>> >>

\* two 7s in row 0, three blank cells
TwoSevensBlank ==
  << <<7,3,4,6,7,8,9,1,2>>,
     <<6,7,2,1,9,5,3,4,8>>,
     <<1,9,8,3,4,2,5,6,7>>,
     <<8,5,9,7,6,1,4,2,3>>,
     <<4,2,6,8,0,3,7,9,1>>,
     <<7,1,0,9,2,4,8,5,6>>,
     <<9,6,1,5,3,7,2,8,4>>,
     <<2,8,7,4,1,9,6,3,5>>,
     <<3,4,5,2,8,6,1,7,0>> >>

\* otherwise empty: 8 at (1,3) and at (3,4), a knight's move apart
KnightPair ==
  << <<0,0,0,0,0,0,0,0,0>>,
     <<0,0,0,8,0,0,0,0,0>>,
     <<0,0,0,0,0,0,0,0,0>>,
     <<0,0,0,0,8,0,0,0,0>>,
     <<0,0,0,0,0,0,0,0,0>>,
     <<0,0,0,0,0,0,0,0,0>>,
     <<0,0,0,0,0,0,0,0,0>>,
     <<0,0,0,0,0,0,0,0,0>>,
     <<0,0,0,0,0,0,0,0,0>> >>

\* KnightSolution with seven cells blank
KnightEasy ==
  << <<0,0,3,4,5,6,7,8,9>>,
     <<0,8,9,3,2,7,1,5,6>>,
     <<5,6,7,0,8,9,3,2,4>>,
     <<6,5,1,7,4,8,9,3,2>>,
     <<7,4,2,9,0,5,6,1,8>>,
     <<9,3,8,6,1,2,4,7,5>>,
     <<3,1,5,8,6,4,2,9,7>>,
     <<2,7,4,5,9,3,8,6,1>>,
     <<8,9,6,2,7,1,5,0,0>> >>

\* a completion of TiePair under the plain rules
TiePairSolution ==
  << <<8,3,1,4,2,5,6,7,9>>,
     <<7,9,5,8,1,6,3,2,4>>,
     <<2,4,6,7,3,9,8,1,5>>,
     <<9,2,7,6,5,4,1,8,3>>,
     <<4,5,3,2,8,1,9,6,7>>,
     <<1,6,8,9,7,3,4,5,2>>,
     <<3,1,4,5,6,7,2,9,8>>,
     <<5,8,9,1,4,2,7,3,6>>,
     <<6,7,2,3,9,8,5,4,1>> >>

\* two 8s a knight's move apart, at (4,4) and (5,2), and nothing else
TiePair ==
  << <<0,0,0,0,0,0,0,0,0>>,
     <<0,0,0,0,0,0,0,0,0>>,
     <<0,0,0,0,0,0,0,0,0>>,
     <<0,0,0,0,0,0,0,0,0>>,
     <<0,0,0,0,8,0,0,0,0>>,
     <<0,0,8,0,0,0,0,0,0>>,
     <<0,0,0,0,0,0,0,0,0>>,
     <<0,0,0,0,0,0,0,0,0>>,
     <<0,0,0,0,0,0,0,0,0>> >>

\* request.json['puzzle'] and request.json['knights']
Puzzles ==
  << [grid |-> GridOf(Rect),           knights |-> FALSE],
     [grid |-> GridOf(Hard),           knights |-> FALSE],
     [grid |-> GridOf(KnightHard),     knights |-> TRUE],
     [grid |-> GridOf(Pigeonhole),     knights |-> FALSE],
     [grid |-> GridOf(NoCandidate),    knights |-> FALSE],
     [grid |-> GridOf(TwoSevensFull),  knights |-> FALSE],
     [grid |-> GridOf(TwoSevensBlank), knights |-> FALSE],
     [grid |-> GridOf(KnightPair),     knights |-> TRUE],
     [grid |-> GridOf(KnightPair),     knights |-> FALSE],
     [grid |-> GridOf(TiePair),        knights |-> FALSE],
     [grid |-> GridOf(KnightEasy),     knights |-> TRUE] >>

(***************************************************************************)
(* The state.                                                              *)
(***************************************************************************)
VARIABLES
  grid,               \* index(): the grid of the request, copied for each engine
  knights,            \* index(): knights_rule
  board,              \* SudokuCSP.board
  domains,            \* SudokuCSP.domains
  tables,             \* the hash table of each set of SudokuCSP.domains
  constraints,        \* SudokuCSP.constraints, the AC-3 work queue
  move_counter,       \* SudokuCSP.move_counter
  stack,              \* the active backtrack() calls, innermost last
  ret,                \* the value a call is returning
  csp_solution,       \* index(): csp_solution
  brute_board,        \* BruteForceSudoku.board
  brute_move_counter, \* BruteForceSudoku.move_counter
  brute_stack,        \* the active BruteForceSudoku.solve() calls, innermost last
  brute_solution,     \* index(): brute_solution
  pc,                 \* where the program is
  last,               \* the step taken last
  tracking,           \* whether snapshots are recorded
  snapshots           \* per active backtrack() call: the state right before
                      \* its latest set_domain (history, kept when tracking)

vars == <<grid, knights, board, domains, tables, constraints, move_counter, stack, ret,
          csp_solution, brute_board, brute_move_counter, brute_stack,
          brute_solution, pc, last, tracking, snapshots>>

csp_vars == <<board, domains, tables, constraints, move_counter, stack, csp_solution,
              snapshots>>

brute_vars == <<brute_board, brute_move_counter, brute_stack, brute_solution>>

Top(s) == s[Len(s)]

Pop(s) == SubSeq(s, 1, Len(s) - 1)

(***************************************************************************)
(* SudokuCSP                                                               *)
(***************************************************************************)
\* SudokuCSP.initialize_domain
initialize_domain(b) ==
  [c \in Cell |-> IF b[c] = 0 THEN 1 .. 9 ELSE {b[c]}]

\* SudokuCSP.initialize_domain: the tables of set(range(1, 10)) and {value}
initialize_tables(b) ==
  [c \in Cell |-> IF b[c] = 0 THEN Big ELSE set_literal(b[c])]

\* SudokuCSP.initialize_constraints: the arcs of every empty cell, in scan order
RECURSIVE initialize_constraints(_, _, _)
initialize_constraints(b, kn, i) ==
  IF i > Len(RowMajor) THEN << >>
  ELSE LET cell == RowMajor[i]
           arcs == IF b[cell] = 0
                   THEN [k \in DOMAIN NeighborList[kn][cell] |->
                           <<cell, NeighborList[kn][cell][k]>>]
                   ELSE << >>
       IN  arcs \o initialize_constraints(b, kn, i + 1)

\* update_domain with "updated = True" outside the test
update_domain_always_updated(cell1, cell2) ==
  LET removed == {x \in domains[cell1] : \A y \in domains[cell2] : x = y}
  IN  [updated |-> TRUE, domain |-> domains[cell1] \ removed,
       table |-> set_remove(tables[cell1], removed)]

\* SudokuCSP.update_domain: the new domain of cell1 and whether it changed
update_domain(cell1, cell2) ==
  LET removed == {x \in domains[cell1] : \A y \in domains[cell2] : x = y}
  IN  [updated |-> removed # {}, domain |-> domains[cell1] \ removed,
       table |-> set_remove(tables[cell1], removed)]

\* mrv with "<=" for "<": among equal domains the last cell wins
RECURSIVE mrv_scan_last_tie(_, _, _)
mrv_scan_last_tie(i, min_cell, min_values) ==
  IF i > Len(RowMajor) THEN min_cell
  ELSE LET cell == RowMajor[i]
       IN  IF board[cell] = 0 /\ Cardinality(domains[cell]) <= min_values
           THEN mrv_scan_last_tie(i + 1, cell, Cardinality(domains[cell]))
           ELSE mrv_scan_last_tie(i + 1, min_cell, min_values)

\* SudokuCSP.mrv: the scan in row-major order, a strictly smaller domain wins
RECURSIVE mrv_scan(_, _, _)
mrv_scan(i, min_cell, min_values) ==
  IF i > Len(RowMajor) THEN min_cell
  ELSE LET cell == RowMajor[i]
       IN  IF board[cell] = 0 /\ Cardinality(domains[cell]) < min_values
           THEN mrv_scan(i + 1, cell, Cardinality(domains[cell]))
           ELSE mrv_scan(i + 1, min_cell, min_values)

mrv == mrv_scan(1, None, size + 1)

\* lcv's helper num_conflicts
num_conflicts(row, col, num) ==
  Cardinality({c \in NeighborSet[knights][<<row, col>>] : num \in domains[c]})

\* Python's sorted(seq, key=...): stable, ascending by key
RECURSIVE sorted(_, _)
sorted(seq, key) ==
  IF seq = << >> THEN << >>
  ELSE LET x == seq[Len(seq)]
           rest == sorted(SubSeq(seq, 1, Len(seq) - 1), key)
       IN  SelectSeq(rest, LAMBDA y : key[y] <= key[x]) \o <<x>>
             \o SelectSeq(rest, LAMBDA y : key[y] > key[x])

\* SudokuCSP.lcv
lcv(row, col) ==
  sorted(set_iter(tables[<<row, col>>], domains[<<row, col>>]),
         [num \in Digits |-> num_conflicts(row, col, num)])

\* set_domain without the loop over the neighbours: only the cell is narrowed
set_domain_no_prune(row, col, num) ==
  LET cell == <<row, col>>
  IN  [board |-> [board EXCEPT ![cell] = num],
       domains |-> [domains EXCEPT ![cell] = {num}],
       tables |-> [tables EXCEPT ![cell] = set_literal(num)],
       move_counter |-> move_counter + 1,
       changes |-> << >>,
       original_domains |-> [c \in {cell} |-> domains[c]],
       original_tables |-> [c \in {cell} |-> set_copy(tables[c], domains[c])]]

\* set_domain without "self.domains[(row, col)] = {num}"
set_domain_keep_domain(row, col, num) ==
  LET cell == <<row, col>>
      changes == SelectSeq(NeighborList[knights][cell], LAMBDA c : num \in domains[c])
  IN  [board |-> [board EXCEPT ![cell] = num],
       domains |-> [c \in Cell |->
                      IF c \in Range(changes) THEN domains[c] \ {num}
                      ELSE domains[c]],
       tables |-> [c \in Cell |->
                     IF c \in Range(changes) THEN set_remove(tables[c], {num})
                     ELSE tables[c]],
       move_counter |-> move_counter + 1,
       changes |-> changes,
       original_domains |-> [c \in {cell} \cup Range(changes) |-> domains[c]],
       original_tables |-> [c \in {cell} \cup Range(changes) |->
                              set_copy(tables[c], domains[c])]]

\* set_domain without "self.move_counter += 1"
set_domain_no_count(row, col, num) ==
  LET cell == <<row, col>>
      changes == SelectSeq(NeighborList[knights][cell], LAMBDA c : num \in domains[c])
  IN  [board |-> [board EXCEPT ![cell] = num],
       domains |-> [c \in Cell |->
                      IF c = cell THEN {num}
                      ELSE IF c \in Range(changes) THEN domains[c] \ {num}
                      ELSE domains[c]],
       tables |-> [c \in Cell |->
                     IF c = cell THEN set_literal(num)
                     ELSE IF c \in Range(changes) THEN set_remove(tables[c], {num})
                     ELSE tables[c]],
       move_counter |-> move_counter,
       changes |-> changes,
       original_domains |-> [c \in {cell} \cup Range(changes) |-> domains[c]],
       original_tables |-> [c \in {cell} \cup Range(changes) |->
                              set_copy(tables[c], domains[c])]]

\* SudokuCSP.set_domain: what it leaves in the object and what it returns
set_domain(row, col, num) ==
  LET cell == <<row, col>>
      changes == SelectSeq(NeighborList[knights][cell], LAMBDA c : num \in domains[c])
  IN  [board |-> [board EXCEPT ![cell] = num],
       domains |-> [c \in Cell |->
                      IF c = cell THEN {num}
                      ELSE IF c \in Range(changes) THEN domains[c] \ {num}
                      ELSE domains[c]],
       tables |-> [c \in Cell |->
                     IF c = cell THEN set_literal(num)
                     ELSE IF c \in Range(changes) THEN set_remove(tables[c], {num})
                     ELSE tables[c]],
       move_counter |-> move_counter + 1,
       changes |-> changes,
       original_domains |-> [c \in {cell} \cup Range(changes) |-> domains[c]],
       original_tables |-> [c \in {cell} \cup Range(changes) |->
                              set_copy(tables[c], domains[c])]]

\* restore without "self.board[row][col] = 0"
restore_keep_board(row, col, changes, original_domains, original_tables) ==
  [board |-> board,
   domains |-> [c \in Cell |->
                  IF c = <<row, col>> \/ c \in Range(changes)
                  THEN original_domains[c]
                  ELSE domains[c]],
   tables |-> [c \in Cell |->
                 IF c = <<row, col>> \/ c \in Range(changes)
                 THEN original_tables[c]
                 ELSE tables[c]]]

\* restore without the loop over changes: only the cell gets its domain back
restore_only_cell(row, col, changes, original_domains, original_tables) ==
  [board |-> [board EXCEPT ![<<row, col>>] = 0],
   domains |-> [domains EXCEPT ![<<row, col>>] = original_domains[<<row, col>>]],
   tables |-> [tables EXCEPT ![<<row, col>>] = original_tables[<<row, col>>]]]

\* SudokuCSP.restore; original_domains holds the copies set_domain made,
\* original_tables their tables
restore(row, col, changes, original_domains, original_tables) ==
  [board |-> [board EXCEPT ![<<row, col>>] = 0],
   domains |-> [c \in Cell |->
                  IF c = <<row, col>> \/ c \in Range(changes)
                  THEN original_domains[c]
                  ELSE domains[c]],
   tables |-> [c \in Cell |->
                 IF c = <<row, col>> \/ c \in Range(changes)
                 THEN original_tables[c]
                 ELSE tables[c]]]

\* the state handed to the engines by index(), for any of the input grids
Start ==
  /\ \E p \in 1 .. NumPuzzles :
       /\ p <= Len(Puzzles)
       /\ grid = Puzzles[p].grid
       /\ knights = Puzzles[p].knights
  /\ board = grid
  /\ domains = initialize_domain(grid)
  /\ tables = initialize_tables(grid)
  /\ constraints = initialize_constraints(grid, knights, 1)
  /\ move_counter = 0
  /\ stack = << >>
  /\ ret = FALSE
  /\ csp_solution = FALSE
  /\ brute_board = grid
  /\ brute_move_counter = 0
  /\ brute_stack = << >>
  /\ brute_solution = FALSE
  /\ pc = "ac3"
  /\ last = "init"
  /\ snapshots = << >>

Init == Start /\ tracking = FALSE

InitTracked == Start /\ tracking = TRUE

\* what a snapshot records
Snapshot == [domains |-> domains, board |-> board, move_counter |-> move_counter]

\* ac3: the queue positions whose arc, revised now, would lose a value
revising == {k \in DOMAIN constraints :
               update_domain(constraints[k][1], constraints[k][2]).updated}

\* ac3: "while self.constraints" up to and including the next iteration in
\* which update_domain removes a value; the iterations before it only pop
Ac3Revise ==
  /\ pc = "ac3"
  /\ \E found \in {revising} :
     \E k \in {i \in found : \A j \in found : i <= j} :
     LET cell1 == constraints[k][1]
         cell2 == constraints[k][2]
         rev == update_domain(cell1, cell2)
         rest == SubSeq(constraints, k + 1, Len(constraints))
         again == SelectSeq(NeighborList[knights][cell1], LAMBDA cell3 : cell3 # cell2)
     IN  /\ domains' = [domains EXCEPT ![cell1] = rev.domain]
         /\ tables' = [tables EXCEPT ![cell1] = rev.table]
         /\ IF rev.domain = {}
            THEN /\ constraints' = rest
                 /\ ret' = FALSE
                 /\ pc' = "return"
            ELSE /\ constraints' = rest \o [n \in DOMAIN again |-> <<again[n], cell1>>]
                 /\ UNCHANGED <<ret, pc>>
  /\ last' = "Ac3Revise"
  /\ UNCHANGED <<grid, knights, tracking, snapshots, board, move_counter, stack, csp_solution>>
  /\ UNCHANGED brute_vars

\* ac3 with "return True" inside the while loop: it returns after the first
\* arc that needs no revision and leaves the rest of the queue
Ac3Done_inside_loop ==
  /\ pc = "ac3"
  /\ constraints # << >>
  /\ ~ update_domain(constraints[1][1], constraints[1][2]).updated
  /\ constraints' = Tail(constraints)
  /\ pc' = "backtrack"
  /\ last' = "Ac3Done"
  /\ UNCHANGED <<grid, knights, tracking, snapshots, board, domains, tables,
                 move_counter, stack, ret, csp_solution>>
  /\ UNCHANGED brute_vars

\* ac3: no arc left in the queue removes a value: the loop pops them all,
\* ac3 returns True and solve goes on to backtrack()
Ac3Done ==
  /\ pc = "ac3"
  /\ revising = {}
  /\ constraints' = << >>
  /\ pc' = "backtrack"
  /\ last' = "Ac3Done"
  /\ UNCHANGED <<grid, knights, tracking, snapshots, board, domains, tables,
                 move_counter, stack, ret, csp_solution>>
  /\ UNCHANGED brute_vars

\* backtrack: mrv, then either "return True" or lcv and the start of the loop
Backtrack ==
  /\ pc = "backtrack"
  /\ LET empty == mrv
     IN  IF empty = None
         THEN /\ ret' = TRUE
              /\ pc' = "return"
              /\ UNCHANGED <<stack, snapshots>>
         ELSE /\ stack' = Append(stack,
                    [row |-> empty[1], col |-> empty[2],
                     lcv_list |-> lcv(empty[1], empty[2]), i |-> 1,
                     changes |-> << >>, original_domains |-> << >>,
                     original_tables |-> << >>])
              /\ snapshots' = IF tracking THEN Append(snapshots, Snapshot)
                                           ELSE snapshots
              /\ pc' = "for"
              /\ UNCHANGED ret
  /\ last' = "Backtrack"
  /\ UNCHANGED <<grid, knights, tracking, board, domains, tables, constraints,
                 move_counter, csp_solution>>
  /\ UNCHANGED brute_vars

\* backtrack: one iteration of "for num in lcv_list" up to the call of solve()
ForNum ==
  /\ pc = "for"
  /\ Top(stack).i <= Len(Top(stack).lcv_list)
  /\ LET f == Top(stack)
         num == f.lcv_list[f.i]
         sd == set_domain(f.row, f.col, num)
     IN  IF num \in domains[<<f.row, f.col>>]
         THEN /\ board' = sd.board
              /\ domains' = sd.domains
              /\ tables' = sd.tables
              /\ move_counter' = sd.move_counter
              /\ stack' = [stack EXCEPT ![Len(stack)] =
                             [f EXCEPT !.changes = sd.changes,
                                       !.original_domains = sd.original_domains,
                                       !.original_tables = sd.original_tables]]
              /\ snapshots' = IF tracking
                               THEN [snapshots EXCEPT ![Len(snapshots)] = Snapshot]
                               ELSE snapshots
              /\ pc' = "ac3"
              /\ last' = "set_domain"
         ELSE /\ stack' = [stack EXCEPT ![Len(stack)] = [f EXCEPT !.i = f.i + 1]]
              /\ last' = "skip"
              /\ UNCHANGED <<board, domains, tables, move_counter, pc, snapshots>>
  /\ UNCHANGED <<grid, knights, tracking, constraints, ret, csp_solution>>
  /\ UNCHANGED brute_vars

\* backtrack: the loop is over, "return False"
ForExhausted ==
  /\ pc = "for"
  /\ Top(stack).i > Len(Top(stack).lcv_list)
  /\ stack' = Pop(stack)
  /\ snapshots' = IF tracking THEN Pop(snapshots) ELSE snapshots
  /\ ret' = FALSE
  /\ pc' = "return"
  /\ last' = "ForExhausted"
  /\ UNCHANGED <<grid, knights, tracking, board, domains, tables, constraints,
                 move_counter, csp_solution>>
  /\ UNCHANGED brute_vars

\* "if self.solve(): return True" in the calling backtrack()
ReturnTrue ==
  /\ pc = "return"
  /\ stack # << >>
  /\ ret = TRUE
  /\ stack' = Pop(stack)
  /\ snapshots' = IF tracking THEN Pop(snapshots) ELSE snapshots
  /\ last' = "ReturnTrue"
  /\ UNCHANGED <<grid, knights, tracking, board, domains, tables, constraints,
                 move_counter, ret, csp_solution, pc>>
  /\ UNCHANGED brute_vars

\* the recursive solve() returned False: restore, and on to the next num
Restore ==
  /\ pc = "return"
  /\ stack # << >>
  /\ ret = FALSE
  /\ LET f == Top(stack)
         rs == restore(f.row, f.col, f.changes, f.original_domains, f.original_tables)
     IN  /\ board' = rs.board
         /\ domains' = rs.domains
         /\ tables' = rs.tables
         /\ stack' = [stack EXCEPT ![Len(stack)] = [f EXCEPT !.i = f.i + 1]]
  /\ pc' = "for"
  /\ last' = "restore"
  /\ UNCHANGED <<grid, knights, tracking, snapshots, constraints, move_counter, ret,
                 csp_solution>>
  /\ UNCHANGED brute_vars

\* index(): csp_solution = csp_solver.solve(), then the brute-force engine
CspReturn ==
  /\ pc = "return"
  /\ stack = << >>
  /\ csp_solution' = ret
  /\ pc' = "brute_solve"
  /\ last' = "CspReturn"
  /\ UNCHANGED <<grid, knights, tracking, snapshots, board, domains, tables,
                 constraints, move_counter, stack, ret>>
  /\ UNCHANGED brute_vars

(***************************************************************************)
(* BruteForceSudoku                                                        *)
(***************************************************************************)
\* BruteForceSudoku.find_empty
find_empty ==
  IF \A c \in Cell : brute_board[c] # 0 THEN None
  ELSE RowMajor[CHOOSE i \in DOMAIN RowMajor :
                  /\ brute_board[RowMajor[i]] = 0
                  /\ \A j \in 1 .. i - 1 : brute_board[RowMajor[j]] # 0]

\* is_valid without the column check
is_valid_no_column(num, row, col) ==
  LET box_start_row == 3 * (row \div 3)
      box_start_col == 3 * (col \div 3)
  IN  /\ \A i \in 0 .. size - 1 : brute_board[<<row, i>>] # num
      /\ \A i \in 0 .. 2, j \in 0 .. 2 :
           brute_board[<<box_start_row + i, box_start_col + j>>] # num
      /\ knights =>
           \A k \in DOMAIN knight_moves :
             LET r == row + knight_moves[k][1]
                 c == col + knight_moves[k][2]
             IN  (0 <= r /\ r < size /\ 0 <= c /\ c < size) => brute_board[<<r, c>>] # num

\* BruteForceSudoku.is_valid
is_valid(num, row, col) ==
  LET box_start_row == 3 * (row \div 3)
      box_start_col == 3 * (col \div 3)
  IN  /\ \A i \in 0 .. size - 1 : brute_board[<<row, i>>] # num
      /\ \A i \in 0 .. size - 1 : brute_board[<<i, col>>] # num
      /\ \A i \in 0 .. 2, j \in 0 .. 2 :
           brute_board[<<box_start_row + i, box_start_col + j>>] # num
      /\ knights =>
           \A k \in DOMAIN knight_moves :
             LET r == row + knight_moves[k][1]
                 c == col + knight_moves[k][2]
             IN  (0 <= r /\ r < size /\ 0 <= c /\ c < size) => brute_board[<<r, c>>] # num

\* solve: find_empty, then either "return True" or the start of the loop
BruteSolve ==
  /\ pc = "brute_solve"
  /\ LET empty == find_empty
     IN  IF empty = None
         THEN /\ ret' = TRUE
              /\ pc' = "brute_return"
              /\ UNCHANGED brute_stack
         ELSE /\ brute_stack' = Append(brute_stack,
                                       [row |-> empty[1], col |-> empty[2], num |-> 1])
              /\ pc' = "brute_for"
              /\ UNCHANGED ret
  /\ last' = "BruteSolve"
  /\ UNCHANGED <<grid, knights, tracking, brute_board, brute_move_counter, brute_solution>>
  /\ UNCHANGED csp_vars

\* the same with the values tried from 9 down to 1
BruteFor_descending ==
  /\ pc = "brute_for"
  /\ Top(brute_stack).num <= 9
  /\ LET f == Top(brute_stack)
     IN  IF is_valid(10 - f.num, f.row, f.col)
         THEN /\ brute_board' = [brute_board EXCEPT ![<<f.row, f.col>>] = 10 - f.num]
              /\ brute_move_counter' = brute_move_counter + 1
              /\ pc' = "brute_solve"
              /\ last' = "place"
              /\ UNCHANGED brute_stack
         ELSE /\ brute_stack' = [brute_stack EXCEPT ![Len(brute_stack)] =
                                   [f EXCEPT !.num = f.num + 1]]
              /\ last' = "reject"
              /\ UNCHANGED <<brute_board, brute_move_counter, pc>>
  /\ UNCHANGED <<grid, knights, tracking, ret, brute_solution>>
  /\ UNCHANGED csp_vars

\* solve: one iteration of "for num in range(1, 10)" up to the recursive call
BruteFor ==
  /\ pc = "brute_for"
  /\ Top(brute_stack).num <= 9
  /\ LET f == Top(brute_stack)
     IN  IF is_valid(f.num, f.row, f.col)
         THEN /\ brute_board' = [brute_board EXCEPT ![<<f.row, f.col>>] = f.num]
              /\ brute_move_counter' = brute_move_counter + 1
              /\ pc' = "brute_solve"
              /\ last' = "place"
              /\ UNCHANGED brute_stack
         ELSE /\ brute_stack' = [brute_stack EXCEPT ![Len(brute_stack)] =
                                   [f EXCEPT !.num = f.num + 1]]
              /\ last' = "reject"
              /\ UNCHANGED <<brute_board, brute_move_counter, pc>>
  /\ UNCHANGED <<grid, knights, tracking, ret, brute_solution>>
  /\ UNCHANGED csp_vars

\* solve: the loop is over, "return False"
BruteExhausted ==
  /\ pc = "brute_for"
  /\ Top(brute_stack).num > 9
  /\ brute_stack' = Pop(brute_stack)
  /\ ret' = FALSE
  /\ pc' = "brute_return"
  /\ last' = "BruteExhausted"
  /\ UNCHANGED <<grid, knights, tracking, brute_board, brute_move_counter, brute_solution>>
  /\ UNCHANGED csp_vars

\* "if self.solve(): return True" in the calling solve()
BruteReturnTrue ==
  /\ pc = "brute_return"
  /\ brute_stack # << >>
  /\ ret = TRUE
  /\ brute_stack' = Pop(brute_stack)
  /\ last' = "BruteReturnTrue"
  /\ UNCHANGED <<grid, knights, tracking, ret, brute_board, brute_move_counter, brute_solution, pc>>
  /\ UNCHANGED csp_vars

\* the same without "self.board[row][col] = 0"
BruteRetract_no_reset ==
  /\ pc = "brute_return"
  /\ brute_stack # << >>
  /\ ret = FALSE
  /\ brute_stack' = [brute_stack EXCEPT ![Len(brute_stack)] =
                       [Top(brute_stack) EXCEPT !.num = Top(brute_stack).num + 1]]
  /\ pc' = "brute_for"
  /\ last' = "retract"
  /\ UNCHANGED <<grid, knights, tracking, ret, brute_board, brute_move_counter,
                 brute_solution>>
  /\ UNCHANGED csp_vars

\* the recursive solve() returned False: reset the cell, on to the next num
BruteRetract ==
  /\ pc = "brute_return"
  /\ brute_stack # << >>
  /\ ret = FALSE
  /\ LET f == Top(brute_stack)
     IN  /\ brute_board' = [brute_board EXCEPT ![<<f.row, f.col>>] = 0]
         /\ brute_stack' = [brute_stack EXCEPT ![Len(brute_stack)] =
                              [f EXCEPT !.num = f.num + 1]]
  /\ pc' = "brute_for"
  /\ last' = "retract"
  /\ UNCHANGED <<grid, knights, tracking, ret, brute_move_counter, brute_solution>>
  /\ UNCHANGED csp_vars

\* index(): brute_solution = brute_solver.solve()
BruteReturn ==
  /\ pc = "brute_return"
  /\ brute_stack = << >>
  /\ brute_solution' = ret
  /\ pc' = "done"
  /\ last' = "BruteReturn"
  /\ UNCHANGED <<grid, knights, tracking, ret, brute_board, brute_move_counter, brute_stack>>
  /\ UNCHANGED csp_vars

Next ==
  \/ Ac3Revise
  \/ Ac3Done
  \/ Backtrack
  \/ ForNum
  \/ ForExhausted
  \/ ReturnTrue
  \/ Restore
  \/ CspReturn
  \/ BruteSolve
  \/ BruteFor
  \/ BruteExhausted
  \/ BruteReturnTrue
  \/ BruteRetract
  \/ BruteReturn

Spec == Init /\ [][Next]_vars

\* the while loop of ac3 keeps running while it has a step to take
FairSpec == Init /\ [][Next]_vars /\ WF_vars(Ac3Revise \/ Ac3Done)

\* the same program with the snapshots recorded
SpecTracked == InitTracked /\ [][Next]_vars

(***************************************************************************)
(* What the claims speak about.                                            *)
(***************************************************************************)
Rows == {{<<r, c>> : c \in 0 .. 8} : r \in 0 .. 8}

Cols == {{<<r, c>> : r \in 0 .. 8} : c \in 0 .. 8}

Boxes == {{<<3 * br + i, 3 * bc + j>> : i \in 0 .. 2, j \in 0 .. 2} : br \in 0 .. 2, bc \in 0 .. 2}

Units == Rows \cup Cols \cup Boxes

KnightApart(c, d) ==
  LET dr == IF c[1] >= d[1] THEN c[1] - d[1] ELSE d[1] - c[1]
      dc == IF c[2] >= d[2] THEN c[2] - d[2] ELSE d[2] - c[2]
  IN  (dr = 1 /\ dc = 2) \/ (dr = 2 /\ dc = 1)

\* two different cells that may not hold the same value
Sees(c, d, kn) ==
  /\ c # d
  /\ \/ \E u \in Units : c \in u /\ d \in u
     \/ kn /\ KnightApart(c, d)

Blanks(g) == {c \in Cell : g[c] = 0}

\* b is completely filled and breaks no rule
Valid(b, kn) ==
  /\ \A c \in Cell : b[c] \in 1 .. 9
  /\ \A u \in Units : {b[c] : c \in u} = 1 .. 9
  /\ kn => \A c \in Cell : \A d \in Cell : KnightApart(c, d) => b[c] # b[d]

\* b keeps every given of g
Completes(b, g) == \A c \in Cell : g[c] # 0 => b[c] = g[c]

Completions ==
  {GridOf(Solution), GridOf(KnightSolution), GridOf(PairSolution),
   GridOf(TiePairSolution)}

\* g has a valid completion (one of the known grids)
Solvable(g, kn) == \E s \in Completions : Valid(s, kn) /\ Completes(s, g)

\* the values the givens leave to an empty cell
Candidates(g, kn, c) == (1 .. 9) \ {g[d] : d \in {e \in Cell : Sees(c, e, kn)}}

\* g has no valid completion, for one of three plain reasons: two givens that
\* see each other are equal, an empty cell has no candidate, or the empty
\* cells of a row have fewer candidates together than there are cells
Unsatisfiable(g, kn) ==
  \/ \E c \in Cell : \E d \in Cell : g[c] # 0 /\ g[c] = g[d] /\ Sees(c, d, kn)
  \/ \E c \in Blanks(g) : Candidates(g, kn, c) = {}
  \/ \E u \in Rows :
       LET open == u \cap Blanks(g)
       IN  open # {} /\
           Cardinality(UNION {Candidates(g, kn, c) : c \in open}) < Cardinality(open)

TwoSevensInRow0(g) ==
  \E c1 \in 0 .. 8 : \E c2 \in 0 .. 8 : c1 # c2 /\ g[<<0, c1>>] = 7 /\ g[<<0, c2>>] = 7

\* the only givens are two equal cells a knight's move apart that share no unit
IsKnightPair(g) ==
  LET given == Cell \ Blanks(g)
  IN  /\ Cardinality(given) = 2
      /\ \A c \in given : \A d \in given \ {c} :
            /\ g[c] = g[d]
            /\ KnightApart(c, d)
            /\ ~ Sees(c, d, FALSE)

\* the CSP engine's solve() has returned to index()
CspDone == pc \in {"brute_solve", "brute_for", "brute_return", "done"}

\* the first ac3 has returned True and the top-level solve() has not returned
InSearch ==
  /\ ~ CspDone
  /\ \/ stack # << >>
     \/ pc \in {"backtrack", "for"}
     \/ pc = "return" /\ last # "Ac3Revise"

EmptyDomain == \E c \in Cell : domains[c] = {}

\* C1: on an input with a valid completion SudokuCSP.solve returns True and
\* leaves a valid completion of the input (knight rule included when enabled)
C1_CspSolves ==
  (last = "CspReturn" /\ Solvable(grid, knights)) =>
    (csp_solution /\ Valid(board, knights) /\ Completes(board, grid))

C1_Witness ==
  /\ last = "CspReturn"
  /\ Solvable(grid, knights)
  /\ knights
  /\ csp_solution
  /\ move_counter > Cardinality(Blanks(grid))

\* C2: on an input with a valid completion BruteForceSudoku.solve returns
\* True and leaves a valid completion of the input
C2_BruteSolves ==
  (last = "BruteReturn" /\ Solvable(grid, knights)) =>
    (brute_solution /\ Valid(brute_board, knights) /\ Completes(brute_board, grid))

C2_Witness ==
  /\ last = "BruteReturn"
  /\ Solvable(grid, knights)
  /\ brute_solution
  /\ brute_move_counter > Cardinality(Blanks(grid))

\* C3: on an input without a valid completion both engines return False
C3_UnsatReportsFailure ==
  Unsatisfiable(grid, knights) =>
    /\ last = "CspReturn" => ~ csp_solution
    /\ last = "BruteReturn" => ~ brute_solution

\* C4: with two 7s in row 0 the first ac3 returns False: backtrack never
\* runs, no move is counted, no cell is written and solve returns False
C4_TwoSevensFailInAc3 ==
  TwoSevensInRow0(grid) =>
    /\ pc \notin {"backtrack", "for"}
    /\ move_counter = 0
    /\ board = grid
    /\ CspDone => ~ csp_solution

\* C5: on a grid whose only givens are two equal values a knight's move
\* apart both engines return False with knights enabled and True without
C5_KnightPair ==
  IsKnightPair(grid) =>
    /\ CspDone => (csp_solution <=> ~ knights)
    /\ pc = "done" => (brute_solution <=> ~ knights)

\* C6: after both engines ran, the CSP engine's move count is at most the
\* brute-force engine's
C6_CspMovesAtMostBrute ==
  pc = "done" => move_counter <= brute_move_counter

\* C7: after set_domain, a failed recursive solve and restore, all domains
\* and the grid are what they were right before that set_domain
C7_RestoreIsExact ==
  (tracking /\ last = "restore") =>
    /\ domains = Top(snapshots).domains
    /\ board = Top(snapshots).board

C7_Witness ==
  /\ tracking
  /\ last = "restore"
  /\ Len(stack) >= 2
  /\ move_counter >= Top(snapshots).move_counter + 2

\* C8: when the first ac3 returns True every arc is consistent: each value of
\* a cell has a different value in every neighbour's domain
C8_Ac3FixedPoint ==
  (last = "Ac3Done" /\ stack = << >>) =>
    \A c1 \in Cell : \A c2 \in NeighborSet[knights][c1] :
      \A x \in domains[c1] : \E y \in domains[c2] : y # x

C10_AssignedCellIsSingleton ==
  \A c \in Cell : board[c] # 0 => domains[c] = {board[c]}

C10_Witness ==
  /\ last = "restore"
  /\ \E c \in Cell : grid[c] = 0 /\ board[c] # 0

\* the cells the search has still to fill
Unassigned == {c \in Cell : board[c] = 0}

\* c comes before d in row-major order
Before(c, d) == c[1] < d[1] \/ (c[1] = d[1] /\ c[2] < d[2])

\* C11: a call of backtrack changes neither the grid nor a domain; it returns
\* True exactly when no cell has grid value 0, and otherwise it selects a cell
\* of grid value 0 whose domain is smallest, the first such in row-major order
C11_MrvSelection ==
  [][pc = "backtrack" =>
       /\ board' = board
       /\ domains' = domains
       /\ (pc' = "return" /\ ret') <=> (Unassigned = {})
       /\ Unassigned # {} =>
            /\ pc' = "for"
            /\ LET c == <<Top(stack').row, Top(stack').col>>
               IN  /\ c \in Unassigned
                   /\ \A d \in Unassigned \ {c} :
                        \/ Cardinality(domains[c]) < Cardinality(domains[d])
                        \/ /\ Cardinality(domains[c]) = Cardinality(domains[d])
                           /\ Before(c, d)]_vars

\* a selection that passed over an earlier empty cell with a larger domain
\* and won a tie against a later one
C11_Witness ==
  /\ last = "Backtrack"
  /\ pc = "for"
  /\ LET c == <<Top(stack).row, Top(stack).col>>
     IN  /\ \E d \in Unassigned :
              Before(d, c) /\ Cardinality(domains[d]) > Cardinality(domains[c])
         /\ \E d \in Unassigned :
              Before(c, d) /\ Cardinality(domains[d]) = Cardinality(domains[c])

\* the number of neighbours of cell c whose domain holds v
Conflicts(c, v) ==
  Cardinality({d \in NeighborSet[knights][c] : v \in domains[d]})

\* C12: for the cell backtrack selects, the list of values to try holds
\* exactly the values of the cell's domain, each once, in ascending order of
\* the number of neighbours whose domain holds the value, equal numbers in
\* ascending order of the value; and each value of the list is tried
C12_LcvOrder ==
  [][/\ (pc = "backtrack" /\ pc' = "for") =>
          LET f == Top(stack')
              c == <<f.row, f.col>>
              l == f.lcv_list
          IN  /\ Range(l) = domains[c]
              /\ Len(l) = Cardinality(domains[c])
              /\ \A i \in DOMAIN l : \A j \in DOMAIN l :
                   i < j =>
                     \/ Conflicts(c, l[i]) < Conflicts(c, l[j])
                     \/ /\ Conflicts(c, l[i]) = Conflicts(c, l[j])
                        /\ l[i] < l[j]
     /\ (pc = "for" /\ Top(stack).i <= Len(Top(stack).lcv_list)) =>
          LET f == Top(stack)
          IN  /\ last' = "set_domain"
              /\ board'[<<f.row, f.col>>] = f.lcv_list[f.i]]_vars

\* the step from grid b to grid a writes a value into an empty cell
Places(b, a) == \E c \in Cell : b[c] = 0 /\ a[c] # 0

\* the cells a search has filled and not taken back
Standing(b) == {c \in Cell : grid[c] = 0 /\ b[c] # 0}

\* C13: both move counters start at 0; a step that writes a value into an
\* empty cell of an engine's grid adds exactly 1 to that engine's counter and
\* every other step (AC-3 pruning, restore, retraction, returns) leaves the
\* counter as it is, so neither counter ever decreases
C13_MoveCounters ==
  /\ move_counter = 0
  /\ brute_move_counter = 0
  /\ [][/\ move_counter' =
              (IF Places(board, board') THEN move_counter + 1 ELSE move_counter)
        /\ brute_move_counter' =
              (IF Places(brute_board, brute_board') THEN brute_move_counter + 1
               ELSE brute_move_counter)]_vars

\* a retraction in the brute-force engine, after a CSP search with restores:
\* both counters exceed the number of cells their engine has left filled
C13_Witness ==
  /\ last = "retract"
  /\ brute_move_counter > Cardinality(Standing(brute_board))
  /\ move_counter > Cardinality(Standing(board))

\* the settings of the knights flag under which neighbors is as specified:
\* for every cell the other cells of its row, column and box, with the
\* in-bounds knight's jumps when the flag is set; irreflexive and symmetric
NeighborsAsSpecified ==
  {kn \in BOOLEAN :
     \A c \in Cell :
       /\ NeighborSet[kn][c] = {d \in Cell : Sees(c, d, kn)}
       /\ c \notin NeighborSet[kn][c]
       /\ \A d \in Cell : d \in NeighborSet[kn][c] <=> c \in NeighborSet[kn][d]}

\* C14: neighbors(cell) is the set of the other cells of the cell's row,
\* column and box, with the in-bounds knight's jumps when knights is
\* enabled; no cell is its own neighbour and the relation is symmetric
C14_Neighbors == knights \in NeighborsAsSpecified

\* set_domain has just used the neighbours of a cell that has knight's jumps
\* off the board, jumps inside its own box and jumps outside its units
C14_Witness ==
  /\ knights
  /\ last = "set_domain"
  /\ LET c == <<Top(stack).row, Top(stack).col>>
         inside == {k \in DOMAIN knight_moves :
                      <<c[1] + knight_moves[k][1], c[2] + knight_moves[k][2]>> \in Cell}
     IN  /\ Cardinality(inside) < Len(knight_moves)
         /\ \E d \in NeighborSet[TRUE][c] : KnightApart(c, d) /\ Sees(c, d, FALSE)
         /\ \E d \in NeighborSet[TRUE][c] : ~ Sees(c, d, FALSE)

\* a is what is left of b after popping from the left
Suffix(a, b) ==
  /\ Len(a) <= Len(b)
  /\ a = SubSeq(b, Len(b) - Len(a) + 1, Len(b))

\* C15: every run of ac3 ends; it ends with the queue empty (True) or with
\* an empty domain (False); and while it runs arcs are appended to the queue
\* only in a step in which a domain has strictly shrunk
C15_Ac3Terminates ==
  /\ (pc = "ac3") ~> (pc # "ac3")
  /\ [][pc = "ac3" =>
          /\ pc' # "ac3" =>
               \/ pc' = "backtrack" /\ constraints' = << >>
               \/ pc' = "return" /\ ~ ret' /\ \E c \in Cell : domains'[c] = {}
          /\ ~ Suffix(constraints', constraints) =>
               /\ \A c \in Cell : domains'[c] \subseteq domains[c]
               /\ \E c \in Cell : domains'[c] # domains[c]]_vars

\* the first ac3 has returned True after pruning the domains of empty cells
C15_Witness ==
  /\ last = "Ac3Done"
  /\ stack = << >>
  /\ constraints = << >>
  /\ \E c \in Cell : grid[c] = 0 /\ Cardinality(domains[c]) < 9
  /\ \E c \in Cell : grid[c] = 0 /\ Cardinality(domains[c]) > 1

\* C16: once the initial ac3 has returned True the queue is empty and stays
\* empty; every ac3 run by a recursive solve() changes nothing and returns
\* True; from then on domains change only in set_domain and restore; and
\* set_domain changes no domain beyond the assigned cell and its neighbours
C16_Ac3OnlyInFirstCall ==
  [][/\ last' = "Ac3Done" => constraints' = << >>
     /\ constraints = << >> => constraints' = << >>
     /\ (pc = "ac3" /\ stack # << >>) =>
          /\ last' = "Ac3Done"
          /\ pc' = "backtrack"
          /\ domains' = domains
     /\ (constraints = << >> /\ domains' # domains) =>
          last' \in {"set_domain", "restore"}
     /\ last' = "set_domain" =>
          \A c \in Cell :
            domains'[c] # domains[c] =>
              \/ c = <<Top(stack).row, Top(stack).col>>
              \/ c \in NeighborSet[knights][<<Top(stack).row, Top(stack).col>>]]_vars

\* a recursive ac3 has just returned True although an empty cell whose domain
\* is a single value has an empty neighbour that still holds that value
C16_Witness ==
  /\ last = "Ac3Done"
  /\ stack # << >>
  /\ constraints = << >>
  /\ \E c \in Cell :
       /\ board[c] = 0
       /\ Cardinality(domains[c]) = 1
       /\ \E d \in NeighborSet[knights][c] :
            /\ board[d] = 0
            /\ Cardinality(domains[d]) > 1
            /\ domains[c] \subseteq domains[d]

\* the cells in which the calls of solve() still running have a value on trial
OnTrial(frames) == {<<frames[i].row, frames[i].col>> : i \in DOMAIN frames}

\* C17: whenever a solve() returns False, in either engine, the grid equals
\* the input grid except in the empty cells that calls still running have on
\* trial; so when the outermost solve() returns False the grid is the input
\* grid cell for cell, also when the initial ac3 failed
C17_FailureLeavesInput ==
  /\ (pc = "return" /\ ~ ret) =>
       \A c \in Cell :
         board[c] = grid[c] \/ (grid[c] = 0 /\ c \in OnTrial(stack))
  /\ (last = "CspReturn" /\ ~ csp_solution) => board = grid
  /\ (pc = "brute_return" /\ ~ ret) =>
       \A c \in Cell :
         brute_board[c] = grid[c] \/ (grid[c] = 0 /\ c \in OnTrial(brute_stack))
  /\ (last = "BruteReturn" /\ ~ brute_solution) => brute_board = grid

\* both engines have searched, written cells, and returned False
C17_Witness ==
  /\ last = "BruteReturn"
  /\ ~ csp_solution
  /\ ~ brute_solution
  /\ move_counter > 0
  /\ brute_move_counter > 0
  /\ board = grid
  /\ brute_board = grid

\* the empty cells of g in row-major order
BlankSeq(g) == SelectSeq(RowMajor, LAMBDA c : g[c] = 0)

\* every way to fill the listed empty cells of the grids in P, one after the
\* other, with values that differ from everything the cell sees
RECURSIVE Fill(_, _, _)
Fill(P, cells, kn) ==
  IF cells = << >> THEN P
  ELSE Fill(UNION {{[b EXCEPT ![Head(cells)] = v] :
                      v \in Candidates(b, kn, Head(cells))} : b \in P},
            Tail(cells), kn)

\* all valid completions of g
ValidCompletions(g, kn) ==
  {b \in Fill({g}, BlankSeq(g), kn) : Valid(b, kn) /\ Completes(b, g)}

\* a comes before b when the cells are read in row-major order
LexLess(a, b) ==
  \E i \in DOMAIN RowMajor :
    /\ a[RowMajor[i]] < b[RowMajor[i]]
    /\ \A j \in 1 .. i - 1 : a[RowMajor[j]] = b[RowMajor[j]]

\* C18: for an input grid with at least one valid completion (and at most
\* MaxBlanks empty cells) BruteForceSudoku.solve returns True and leaves the
\* valid completion that is smallest in row-major lexicographic order
C18_BruteLexSmallest ==
  (last = "BruteReturn" /\ Cardinality(Blanks(grid)) <= MaxBlanks) =>
    \A all \in {ValidCompletions(grid, knights)} :
      all # {} =>
        /\ brute_solution
        /\ brute_board \in all
        /\ \A s \in all : s = brute_board \/ LexLess(brute_board, s)

\* the brute force has returned one of several valid completions
C18_Witness ==
  /\ last = "BruteReturn"
  /\ brute_solution
  /\ Cardinality(Blanks(grid)) <= MaxBlanks
  /\ \E s \in ValidCompletions(grid, knights) : LexLess(brute_board, s)

====
